---------------------------- MODULE Spec2Model ----------------------------
(***************************************************************************)
(* SpatiaLynk backend: the query parser (app/prompt_parser.py), the        *)
(* multi-level recommender (app/multilevel.py) and the category-           *)
(* diversified selector (app/recommender.py), over a small POI catalog.    *)
(* Text is modelled by TLA+ strings, character by character.               *)
(***************************************************************************)
EXTENDS Integers, Sequences, FiniteSets, TLC

(***************************************************************************)
(* Bounds of the model.                                                    *)
(***************************************************************************)
MaxRows == 3      \* rows of the catalog of a recommendation request
MaxK == 2         \* largest top_k requested
MaxPool == 3      \* rows of a candidate pool handed to diversified_sample

(***************************************************************************)
(* Python str operations used by the parser.                               *)
(***************************************************************************)
UPPERCASE == "ABCDEFGHIJKLMNOPQRSTUVWXYZ"
LOWERCASE == "abcdefghijklmnopqrstuvwxyz"
\* the modelled characters in code-point order (what sorted() compares by)
CODEPOINTS == " ABCDEFGHIJKLMNOPQRSTUVWXYZ_abcdefghijklmnopqrstuvwxyz"

Ch(s, i) == SubSeq(s, i, i)

\* position of character c in the alphabet, 0 when it is not there
PositionIn(alphabet) == [c \in {Ch(alphabet, j) : j \in 1..Len(alphabet)} |->
                            CHOOSE j \in 1..Len(alphabet) : Ch(alphabet, j) = c]
UpperPosition == PositionIn(UPPERCASE)
LowerPosition == PositionIn(LOWERCASE)
CodePoint == PositionIn(CODEPOINTS)

RECURSIVE lower(_)
RECURSIVE upper(_)
\* str.lower() and str.upper()
lower(s) ==
    IF s = "" THEN ""
    ELSE LET c == Ch(s, 1)
         IN  (IF c \in DOMAIN UpperPosition THEN Ch(LOWERCASE, UpperPosition[c]) ELSE c)
             \o lower(SubSeq(s, 2, Len(s)))
upper(s) ==
    IF s = "" THEN ""
    ELSE LET c == Ch(s, 1)
         IN  (IF c \in DOMAIN LowerPosition THEN Ch(UPPERCASE, LowerPosition[c]) ELSE c)
             \o upper(SubSeq(s, 2, Len(s)))

\* Python's `p in q` on strings: p occurs in q as a substring
In(p, q) == \E i \in 1..(Len(q) - Len(p) + 1) : SubSeq(q, i, i + Len(p) - 1) = p

\* str.strip()
RECURSIVE strip(_)
strip(s) ==
    IF s = "" THEN ""
    ELSE IF Ch(s, 1) = " " THEN strip(SubSeq(s, 2, Len(s)))
    ELSE IF Ch(s, Len(s)) = " " THEN strip(SubSeq(s, 1, Len(s) - 1))
    ELSE s

\* re.sub(r"\s+", " ", s): every run of whitespace becomes one space
RECURSIVE CollapseSpaces(_)
CollapseSpaces(s) ==
    IF Len(s) < 2 THEN s
    ELSE IF Ch(s, 1) = " " /\ Ch(s, 2) = " " THEN CollapseSpaces(SubSeq(s, 2, Len(s)))
    ELSE Ch(s, 1) \o CollapseSpaces(SubSeq(s, 2, Len(s)))

_normalise(text) == CollapseSpaces(lower(strip(text)))

\* str.split(): the maximal runs of non-whitespace characters, in order
RECURSIVE split(_)
split(s) ==
    IF s = "" THEN <<>>
    ELSE IF Ch(s, 1) = " " THEN split(SubSeq(s, 2, Len(s)))
    ELSE LET stops == {i \in 1..Len(s) : Ch(s, i) = " "}
             n == IF stops = {} THEN Len(s)
                  ELSE (CHOOSE i \in stops : \A j \in stops : i <= j) - 1
         IN  <<SubSeq(s, 1, n)>> \o split(SubSeq(s, n + 1, Len(s)))

\* a regular-expression word character (\w)
IsWordChar(c) == c # " " /\ c \in DOMAIN CodePoint

\* re.search(rf"\b{key}\b", q) for a key made of word characters
WordSearch(key, q) ==
    \E i \in 1..(Len(q) - Len(key) + 1) :
        /\ SubSeq(q, i, i + Len(key) - 1) = key
        /\ (i = 1 \/ ~IsWordChar(Ch(q, i - 1)))
        /\ (i + Len(key) > Len(q) \/ ~IsWordChar(Ch(q, i + Len(key))))

\* string comparison by code points, as sorted() orders str values
RECURSIVE StrLess(_, _)
StrLess(a, b) ==
    IF b = "" THEN FALSE
    ELSE IF a = "" THEN TRUE
    ELSE LET x == CodePoint[Ch(a, 1)]
             y == CodePoint[Ch(b, 1)]
         IN  IF x # y THEN x < y
             ELSE StrLess(SubSeq(a, 2, Len(a)), SubSeq(b, 2, Len(b)))

\* sorted(S) for a finite set of strings
RECURSIVE sorted(_)
sorted(S) ==
    IF S = {} THEN <<>>
    ELSE LET m == CHOOSE x \in S : \A y \in S \ {x} : StrLess(x, y)
         IN  <<m>> \o sorted(S \ {m})

Range(f) == {f[i] : i \in DOMAIN f}

(***************************************************************************)
(* Static tables.                                                          *)
(***************************************************************************)
\* phrase -> abstract category, in the dict's insertion order
CATEGORY_KEYWORDS == <<
    <<"food", "food">>, <<"eat", "food">>, <<"dinner", "food">>,
    <<"lunch", "food">>, <<"breakfast", "food">>, <<"supper", "food">>,
    <<"restaurant", "food">>, <<"restaurants", "food">>, <<"hawker", "food">>,
    <<"local food", "food">>, <<"street food", "food">>, <<"cafe", "cafe">>,
    <<"cafes", "cafe">>, <<"coffee", "cafe">>, <<"brunch", "cafe">>,
    <<"tea", "cafe">>, <<"shop", "shopping">>, <<"shopping", "shopping">>,
    <<"mall", "shopping">>, <<"malls", "shopping">>, <<"boutique", "shopping">>,
    <<"buy clothes", "shopping">>, <<"park", "nature">>, <<"parks", "nature">>,
    <<"hike", "nature">>, <<"hiking", "nature">>, <<"nature", "nature">>,
    <<"garden", "nature">>, <<"gardens", "nature">>, <<"zoo", "nature">>,
    <<"river", "nature">>, <<"beach", "nature">>, <<"museum", "culture">>,
    <<"museums", "culture">>, <<"gallery", "culture">>, <<"art", "culture">>,
    <<"temple", "culture">>, <<"heritage", "culture">>, <<"history", "culture">>,
    <<"fun things", "activities">>, <<"things to do", "activities">>, <<"activities", "activities">>,
    <<"date ideas", "activities">>, <<"romantic", "activities">>, <<"axe throwing", "activities">>,
    <<"escape room", "activities">>, <<"arcade", "activities">>, <<"bowling", "activities">>,
    <<"indoor playground", "activities">>, <<"bar", "nightlife">>, <<"bars", "nightlife">>,
    <<"club", "nightlife">>, <<"clubs", "nightlife">>, <<"drinks", "nightlife">>,
    <<"cocktails", "nightlife">> >>

\* abstract category -> concrete POI category labels
CATEGORY_MAP ==
    [food |-> <<"restaurant", "hawker", "eatery", "bistro">>,
     cafe |-> <<"cafe", "coffee", "dessert_cafe", "tea_house">>,
     shopping |-> <<"shopping_mall", "market", "boutique">>,
     nature |-> <<"park", "garden", "nature_reserve", "zoo", "beach">>,
     culture |-> <<"museum", "gallery", "temple", "heritage">>,
     activities |-> <<"activity_center", "sports_center", "arcade", "escape_room",
                      "axe_throwing", "indoor_playground", "theme_park", "attraction">>,
     nightlife |-> <<"bar", "club", "lounge">>]

BORING_CATEGORIES ==
    {"supermarket", "grocery", "atm", "convenience", "clinic", "bank", "office",
     "service", "pharmacy"}

\* the dict of the compass fallback, in insertion order
REGION_KEYWORDS ==
    << <<"east", "EAST">>, <<"west", "WEST">>, <<"north", "NORTH">>,
       <<"south", "SOUTH">>, <<"central", "CENTRAL">> >>

\* Python's None; a dict is a function from its keys, so None is also falsy
None == [key \in {} |-> ""]

(***************************************************************************)
(* The catalog.  A CSV row has name, category, district, region and        *)
(* popularity (the optional lat, lon, price and characteristic columns     *)
(* take part in no decision and are left out).  A row of a DataFrame is    *)
(* known by its index label, here its position in POI_DATA.                *)
(***************************************************************************)
CsvRows ==
    { [name |-> "Bedok Mall", category |-> "shopping_mall", district |-> "BEDOK",
       region |-> "EAST", popularity |-> 3],
      [name |-> "East Coast Park", category |-> "park", district |-> "BEDOK",
       region |-> "EAST", popularity |-> 0],
      [name |-> "Bedok Clinic", category |-> "clinic", district |-> "BEDOK",
       region |-> "EAST", popularity |-> 5],
      [name |-> "Singapore Zoo", category |-> "zoo", district |-> "MANDAI",
       region |-> "NORTH", popularity |-> 4],
      [name |-> "Jurong Cafe", category |-> "cafe", district |-> "JURONG",
       region |-> "WEST", popularity |-> 2],
      [name |-> "Pasir Ris Park", category |-> "park", district |-> "PASIR RIS",
       region |-> "EAST", popularity |-> 0] }

\* The float NaN that pd.read_csv gives an empty popularity cell.  The popularities
\* of the model are naturals; NaN is kept apart from them as the one value below
\* 0, which is also where sort_values(ascending=False) puts it: last.
NaN == -1

\* a row whose popularity cell is empty
RowsMissingPopularity ==
    { [name |-> "Changi Cafe", category |-> "cafe", district |-> "CHANGI",
       region |-> "EAST", popularity |-> NaN] }

\* load_poi_data: the CSV rows plus the three lower-case matching columns
load_poi_data(csv) ==
    [i \in DOMAIN csv |->
        [name |-> csv[i].name, category |-> csv[i].category,
         district |-> csv[i].district, region |-> csv[i].region,
         popularity |-> csv[i].popularity,
         name_lower |-> lower(csv[i].name),
         district_lower |-> lower(csv[i].district),
         region_lower |-> lower(csv[i].region)]]

VARIABLES
    POI_DATA,   \* the catalog loaded at start-up (database.POI_DATA)
    query,      \* the raw query text of the request
    top_k,      \* the requested number of results
    pc,         \* where the call stands
    response,   \* what multilevel_recommend returned, or the exception it raised
    results,    \* diversified_sample: the list `results`
    used_categories,  \* diversified_sample: the set `used_categories`
    round       \* diversified_sample: iterations of the loop done so far

(***************************************************************************)
(* prompt_parser.extract_location                                          *)
(***************************************************************************)
\* the matches one catalog row appends: POI name, then district, then region
RowMatches(row, q) ==
    (IF In(row.name_lower, q)
     THEN << [location_name |-> row.name, location_level |-> "poi",
              district |-> row.district, region |-> row.region] >>
     ELSE <<>>)
    \o (IF In(row.district_lower, q)
        THEN << [location_name |-> row.district, location_level |-> "district",
                 region |-> row.region] >>
        ELSE <<>>)
    \o (IF In(row.region_lower, q)
        THEN << [location_name |-> row.region, location_level |-> "region"] >>
        ELSE <<>>)

\* the list `matches` after the loop over POI_DATA.iterrows()
RECURSIVE DirectMatchesFrom(_, _)
DirectMatchesFrom(i, q) ==
    IF i > Len(POI_DATA) THEN <<>>
    ELSE RowMatches(POI_DATA[i], q) \o DirectMatchesFrom(i + 1, q)

DirectMatches(q) == DirectMatchesFrom(1, q)

priority(m) ==
    CASE m.location_level = "poi" -> 3
      [] m.location_level = "district" -> 2
      [] m.location_level = "region" -> 1

Reverse(s) == [i \in 1..Len(s) |-> s[Len(s) + 1 - i]]

\* a sort that is not stable: an ascending sort read backwards, which turns the
\* matches of one level around
SortByPriority_Reversed(matches) ==
    LET IsPoi(m) == priority(m) = 3
        IsDistrict(m) == priority(m) = 2
        IsRegion(m) == priority(m) = 1
    IN  Reverse(SelectSeq(matches, IsPoi)) \o Reverse(SelectSeq(matches, IsDistrict))
        \o Reverse(SelectSeq(matches, IsRegion))

\* matches.sort(key=priority, reverse=True): list.sort is stable, also when
\* reversed, so equal priorities keep the order they were appended in
SortByPriority(matches) ==
    LET IsPoi(m) == priority(m) = 3
        IsDistrict(m) == priority(m) = 2
        IsRegion(m) == priority(m) = 1
    IN  SelectSeq(matches, IsPoi) \o SelectSeq(matches, IsDistrict)
        \o SelectSeq(matches, IsRegion)

\* sorted({str(d).lower() for d in POI_DATA["district"].dropna().unique()})
unique_districts == sorted({lower(POI_DATA[i].district) : i \in DOMAIN POI_DATA})

\* the test of the fuzzy fallback on one district
\* the fuzzy test without its second clause, `q in district`
FuzzyHit_DistrictInQuery(district, q) ==
    \/ In(district, q)
    \/ \E t \in DOMAIN split(q) : split(q)[t] # "" /\ In(split(q)[t], district)

FuzzyHit(district, q) ==
    \/ In(district, q)
    \/ In(q, district)
    \/ \E t \in DOMAIN split(q) : split(q)[t] # "" /\ In(split(q)[t], district)

\* region[0] of the rows of that district, in catalog order
FirstRegionOf(district) ==
    LET rows == {i \in DOMAIN POI_DATA : lower(POI_DATA[i].district) = district}
    IN  IF rows = {} THEN None
        ELSE POI_DATA[CHOOSE i \in rows : \A j \in rows : i <= j].region

FuzzyDistrict(q) ==
    LET hits == {n \in DOMAIN unique_districts : FuzzyHit(unique_districts[n], q)}
    IN  IF hits = {} THEN None
        ELSE LET district == unique_districts[CHOOSE n \in hits : \A m \in hits : n <= m]
             IN  [location_name |-> upper(district), location_level |-> "district",
                  region |-> FirstRegionOf(district)]

CompassRegion(q) ==
    LET hits == {n \in DOMAIN REGION_KEYWORDS : WordSearch(REGION_KEYWORDS[n][1], q)}
    IN  IF hits = {} THEN None
        ELSE [location_name |->
                 REGION_KEYWORDS[CHOOSE n \in hits : \A m \in hits : n <= m][2],
              location_level |-> "region"]

\* the city test made after the direct matches instead of before them
extract_location_MatchesFirst(text) ==
    LET q == _normalise(text)
        matches == DirectMatches(q)
    IN  IF matches # <<>> THEN SortByPriority(matches)[1]
        ELSE IF In("singapore", q)
        THEN [location_name |-> "Singapore", location_level |-> "city"]
        ELSE IF FuzzyDistrict(q) # None THEN FuzzyDistrict(q)
        ELSE CompassRegion(q)

extract_location(text) ==
    LET q == _normalise(text)
        matches == DirectMatches(q)
    IN  IF In("singapore", q)
        THEN [location_name |-> "Singapore", location_level |-> "city"]
        ELSE IF matches # <<>> THEN SortByPriority(matches)[1]
        ELSE IF FuzzyDistrict(q) # None THEN FuzzyDistrict(q)
        ELSE CompassRegion(q)

(***************************************************************************)
(* prompt_parser.extract_categories and parse_query                        *)
(***************************************************************************)
\* only the first phrase of the table that occurs counts
extract_categories_FirstPhrase(text) ==
    LET q == _normalise(text)
        hits == {m \in DOMAIN CATEGORY_KEYWORDS : In(CATEGORY_KEYWORDS[m][1], q)}
    IN  IF hits = {} THEN <<>>
        ELSE <<CATEGORY_KEYWORDS[CHOOSE n \in hits : \A m \in hits : n <= m][2]>>

extract_categories(text) ==
    LET q == _normalise(text)
        byPhrase == {CATEGORY_KEYWORDS[n][2] :
                        n \in {m \in DOMAIN CATEGORY_KEYWORDS : In(CATEGORY_KEYWORDS[m][1], q)}}
        broad == IF In("things to do", q) \/ In("what to do", q) \/ In("fun", q)
                 THEN {"activities"} ELSE {}
    IN  sorted(byPhrase \cup broad)

parse_query(text) ==
    [raw_query |-> text, location |-> extract_location(text),
     categories |-> extract_categories(text)]

(***************************************************************************)
(* multilevel.py.  A DataFrame derived from POI_DATA is the sequence of    *)
(* the index labels of its rows; a list of records (to_dict) is the        *)
(* sequence of the labels of the rows the records were made from.          *)
(***************************************************************************)
RECURSIVE SumPopularity(_)
SumPopularity(df) ==
    IF df = <<>> THEN 0
    ELSE IF POI_DATA[Head(df)].popularity = NaN \/ SumPopularity(Tail(df)) = NaN THEN NaN
    ELSE POI_DATA[Head(df)].popularity + SumPopularity(Tail(df))

\* the sequences of n distinct elements of the set S
RECURSIVE Draws(_, _)
Draws(S, n) ==
    IF n = 0 THEN {<<>>}
    ELSE UNION {{<<x>> \o d : d \in Draws(S \ {x}, n - 1)} : x \in S}

\* a sample that is not cut to top_k rows
weighted_sample_Unbounded(df, k) == {[raised |-> FALSE, records |-> df]}

\* What weighted_sample(df, top_k) can do.  astype(float) keeps a NaN popularity,
\* which makes weights.sum() and with it every weight NaN.  np.random.choice(
\* size=top_k, replace=False, p=weights) raises ValueError when the weights are NaN
\* (from a NaN popularity, or 0/0), when fewer than top_k rows have a non-zero
\* weight, or when top_k is negative; otherwise it draws top_k distinct rows of
\* non-zero weight.
weighted_sample(df, k) ==
    LET positive == {i \in Range(df) : POI_DATA[i].popularity > 0}
    IN  IF Len(df) <= k THEN {[raised |-> FALSE, records |-> df]}
        ELSE IF \/ SumPopularity(df) = NaN
                \/ SumPopularity(df) = 0
                \/ k < 0
                \/ Cardinality(positive) < k
        THEN {[raised |-> TRUE, records |-> <<>>]}
        ELSE {[raised |-> FALSE, records |-> d] : d \in Draws(positive, k)}

\* group_by_region / group_by_district: one weighted_sample per value of the
\* column, under the keys sorted(df[column].unique()); the call raises when one
\* of the samples does
GroupOutcomes(df, column, k) ==
    LET keys == {POI_DATA[i][column] : i \in Range(df)}
        sub(key) == LET Has(i) == POI_DATA[i][column] = key IN SelectSeq(df, Has)
        raises == \E key \in keys : \E o \in weighted_sample(sub(key), k) : o.raised
        lists == UNION {{o.records : o \in weighted_sample(sub(key), k)} : key \in keys}
    IN  IF raises THEN {[raised |-> TRUE, grouped |-> None]}
        ELSE {[raised |-> FALSE, grouped |-> g] :
                 g \in {h \in [keys -> lists] :
                           \A key \in keys :
                               [raised |-> FALSE, records |-> h[key]]
                                   \in weighted_sample(sub(key), k)}}

group_by_region(df, k) == GroupOutcomes(df, "region", k)
group_by_district(df, k) == GroupOutcomes(df, "district", k)

\* recommender.filter_exploration_df: the rows whose category is not boring.
\* multilevel_recommend does not call it.
filter_exploration_df(df) ==
    LET NotBoring(i) == POI_DATA[i].category \notin BORING_CATEGORIES
    IN  SelectSeq(df, NotBoring)

\* allowed_categories of Step 1
RECURSIVE allowed_categories(_)
allowed_categories(categories) ==
    IF categories = <<>> THEN {}
    ELSE (IF Head(categories) \in DOMAIN CATEGORY_MAP
          THEN Range(CATEGORY_MAP[Head(categories)]) ELSE {})
         \cup allowed_categories(Tail(categories))

\* df.sort_values(by="popularity", ascending=False): rows of equal popularity
\* stay in catalog order
RECURSIVE SortByPopularity(_)
SortByPopularity(df) ==
    IF df = <<>> THEN <<>>
    ELSE LET best == CHOOSE n \in DOMAIN df :
                        \A m \in DOMAIN df :
                            \/ POI_DATA[df[n]].popularity > POI_DATA[df[m]].popularity
                            \/ /\ POI_DATA[df[n]].popularity = POI_DATA[df[m]].popularity
                               /\ n <= m
             Rest(i) == i # df[best]
         IN  <<df[best]>> \o SortByPopularity(SelectSeq(df, Rest))

\* Step 1 of multilevel_recommend: the interest-filtered, popularity-sorted df
InterestFiltered(categories) ==
    LET all == [i \in DOMAIN POI_DATA |-> i]
        Allowed(i) == POI_DATA[i].category \in allowed_categories(categories)
    IN  SortByPopularity(IF categories # <<>> THEN SelectSeq(all, Allowed) ELSE all)

Raised == [exception |-> "ValueError"]

(***************************************************************************)
(* explain.py (the dash of two of its sentences is written "-" here)       *)
(***************************************************************************)
explain_level(parsed, location, level) ==
    IF location = None
    THEN "No specific location detected - showing recommendations across Singapore."
    ELSE CASE level = "region" ->
                "Your query referenced the region '" \o location.location_name \o "'."
           [] level = "district" ->
                "Your query referenced the district '" \o location.location_name \o "'."
           [] level = "district_fallback" ->
                "Too few POIs found in district '" \o location.location_name
                \o "', so results were expanded to the region '" \o location.region \o "'."
           [] level = "poi" ->
                "You mentioned a specific POI ('" \o location.location_name
                \o "'), so showing nearby places in the same district."
           [] level = "city" -> "Showing recommendations across Singapore."
           [] OTHER -> "General recommendations."

\* ", ".join(categories)
RECURSIVE JoinComma(_)
JoinComma(categories) ==
    IF categories = <<>> THEN ""
    ELSE IF Len(categories) = 1 THEN categories[1]
    ELSE categories[1] \o ", " \o JoinComma(Tail(categories))

explain_categories(categories) ==
    IF categories = <<>>
    THEN "No specific intent detected - showing popular or relevant places."
    ELSE "These places match your interests: " \o JoinComma(categories) \o "."

\* the location sentence of explain_poi, "" when it adds none
LocationReason(poi, location) ==
    IF location = None THEN ""
    ELSE IF lower(poi.district) = lower(location.location_name)
    THEN " Located in the requested district '" \o poi.district \o "'."
    ELSE IF lower(poi.region)
              = lower(IF "region" \in DOMAIN location THEN location.region ELSE "")
    THEN " Located in the requested region '" \o poi.region \o "'."
    ELSE ""

explain_poi(poi, location, categories) ==
    (IF categories # <<>>
     THEN "Matches your interest category '" \o poi.category \o "'."
     ELSE "Recommended due to high popularity.")
    \o LocationReason(poi, location)

\* [explain_poi(p, location, categories) for p in records]
ExplainAll(records, location, categories) ==
    [n \in DOMAIN records |-> explain_poi(POI_DATA[records[n]], location, categories)]

\* the "explanation" entry of an envelope
Explanation(parsed, location, level) ==
    [level_reason |-> explain_level(parsed, location, level),
     category_reason |-> explain_categories(parsed.categories)]


\* CASE A: no location detected
CityLevel(parsed, df) ==
    /\ pc = "request"
    /\ parsed.location = None
    /\ \E out \in group_by_region(df, top_k) :
          response' = IF out.raised THEN Raised
                      ELSE [level |-> "city", city |-> "Singapore",
                            regions |-> out.grouped,
                            explanation |-> Explanation(parsed, None, "city"),
                            poi_explanations |->
                                [r \in DOMAIN out.grouped |->
                                    ExplainAll(out.grouped[r], None, parsed.categories)],
                            parsed |-> parsed]
    /\ pc' = "done"
    /\ UNCHANGED <<POI_DATA, query, top_k, results, used_categories, round>>

\* CASE B: region level
RegionLevel(parsed, df) ==
    /\ pc = "request"
    /\ parsed.location # None
    /\ parsed.location.location_level = "region"
    /\ LET loc_name == lower(parsed.location.location_name)
           InRegion(i) == lower(POI_DATA[i].region) = loc_name
           region_df == SelectSeq(df, InRegion)
       IN  \E out \in group_by_district(region_df, top_k) :
              response' = IF out.raised THEN Raised
                          ELSE [level |-> "region", region |-> parsed.location.location_name,
                                districts |-> out.grouped,
                                explanation |->
                                    Explanation(parsed, parsed.location, "region"),
                                poi_explanations |->
                                    [d \in DOMAIN out.grouped |->
                                        ExplainAll(out.grouped[d], parsed.location,
                                                   parsed.categories)],
                                parsed |-> parsed]
    /\ pc' = "done"
    /\ UNCHANGED <<POI_DATA, query, top_k, results, used_categories, round>>

\* the district's rows taken from the whole catalog instead of from df
DistrictDf_WholeCatalog(location, df) ==
    LET loc_name == lower(location.location_name)
        InDistrict(i) == lower(POI_DATA[i].district) = loc_name
    IN  SelectSeq([i \in DOMAIN POI_DATA |-> i], InDistrict)

\* the rows of df in the district the location names
DistrictDf(location, df) ==
    LET loc_name == lower(location.location_name)
        InDistrict(i) == lower(POI_DATA[i].district) = loc_name
    IN  SelectSeq(df, InDistrict)

\* CASE C, too few rows in the district: expand to the region
DistrictFallback(parsed, df) ==
    /\ pc = "request"
    /\ parsed.location # None
    /\ parsed.location.location_level = "district"
    /\ Len(DistrictDf(parsed.location, df)) < top_k
    /\ LET region_name == parsed.location.region
           InRegion(i) == POI_DATA[i].region = region_name
           region_df == SelectSeq(df, InRegion)
       IN  \E out \in weighted_sample(region_df, top_k) :
              response' = IF out.raised THEN Raised
                          ELSE [level |-> "district_fallback",
                                district |-> parsed.location.location_name,
                                region |-> region_name,
                                results |-> out.records,
                                explanation |->
                                    Explanation(parsed, parsed.location, "district_fallback"),
                                poi_explanations |->
                                    ExplainAll(out.records, parsed.location,
                                               parsed.categories),
                                parsed |-> parsed]
    /\ pc' = "done"
    /\ UNCHANGED <<POI_DATA, query, top_k, results, used_categories, round>>

\* CASE C, main district output
DistrictLevel(parsed, df) ==
    /\ pc = "request"
    /\ parsed.location # None
    /\ parsed.location.location_level = "district"
    /\ ~(Len(DistrictDf(parsed.location, df)) < top_k)
    /\ \E out \in weighted_sample(DistrictDf(parsed.location, df), top_k) :
          response' = IF out.raised THEN Raised
                      ELSE [level |-> "district", district |-> parsed.location.location_name,
                            results |-> out.records,
                            explanation |-> Explanation(parsed, parsed.location, "district"),
                            poi_explanations |->
                                ExplainAll(out.records, parsed.location, parsed.categories),
                            parsed |-> parsed]
    /\ pc' = "done"
    /\ UNCHANGED <<POI_DATA, query, top_k, results, used_categories, round>>

\* CASE D: POI level, the POIs of the same district
PoiLevel(parsed, df) ==
    /\ pc = "request"
    /\ parsed.location # None
    /\ parsed.location.location_level = "poi"
    /\ LET district_name == parsed.location.district
           InDistrict(i) == lower(POI_DATA[i].district) = lower(district_name)
           district_df == SelectSeq(df, InDistrict)
       IN  \E out \in weighted_sample(district_df, top_k) :
              response' = IF out.raised THEN Raised
                          ELSE [level |-> "poi", poi |-> parsed.location.location_name,
                                nearby |-> out.records,
                                explanation |-> Explanation(parsed, parsed.location, "poi"),
                                poi_explanations |->
                                    ExplainAll(out.records, parsed.location,
                                               parsed.categories),
                                parsed |-> parsed]
    /\ pc' = "done"
    /\ UNCHANGED <<POI_DATA, query, top_k, results, used_categories, round>>

\* the final return: a location of none of the three handled levels
NoLevel(parsed, df) ==
    /\ pc = "request"
    /\ parsed.location # None
    /\ parsed.location.location_level \notin {"region", "district", "poi"}
    /\ response' = [error |-> "Unable to determine recommendation level.",
                    parsed |-> parsed]
    /\ pc' = "done"
    /\ UNCHANGED <<POI_DATA, query, top_k, results, used_categories, round>>

(***************************************************************************)
(* The requests: a catalog of up to MaxRows rows, a raw query, and top_k in  *)
(* 1..MaxK.                                                                *)
(***************************************************************************)
RECURSIVE SeqsOfDistinct(_, _)
SeqsOfDistinct(S, n) ==
    IF n = 0 THEN {<<>>}
    ELSE SeqsOfDistinct(S, n - 1) \cup Draws(S, n)

Catalogs == {load_poi_data(csv) : csv \in SeqsOfDistinct(CsvRows, MaxRows)}

Queries ==
    {"Fun things to do in Singapore", "  Cafes in  the EAST ", "Bedok Mall in east Singapore",
     "Bedok Mall", "East Coast Park Bedok Mall", "east", "Where to go", "Cafes",
     "Cafes in Bedok", "Bedok", "jur", "cafes and shopping in jurong", "", "   "}

vars == <<POI_DATA, query, top_k, pc, response, results, used_categories, round>>

Init ==
    /\ POI_DATA \in Catalogs
    /\ query \in Queries
    /\ top_k \in 1..MaxK
    /\ pc = "request"
    /\ response = None
    /\ results = <<>>
    /\ used_categories = {}
    /\ round = 0

\* multilevel_recommend(query, top_k): parse, filter by interest, then the case
\* of the location's level
multilevel_recommend ==
    LET parsed == parse_query(query)
        df == InterestFiltered(parsed.categories)
    IN  \/ CityLevel(parsed, df)
        \/ RegionLevel(parsed, df)
        \/ DistrictFallback(parsed, df)
        \/ DistrictLevel(parsed, df)
        \/ PoiLevel(parsed, df)
        \/ NoLevel(parsed, df)

Next == multilevel_recommend

Spec == Init /\ [][Next]_vars

(***************************************************************************)
(* Properties of multilevel_recommend (specification Spec).                *)
(***************************************************************************)
\* multilevel_recommend returned a dict that reports a level
IsEnvelope == pc = "done" /\ "level" \in DOMAIN response

\* the lists of POIs an envelope holds: one per group, or the one flat list
ResultLists(resp) ==
    CASE resp.level = "city" -> {resp.regions[r] : r \in DOMAIN resp.regions}
      [] resp.level = "region" -> {resp.districts[d] : d \in DOMAIN resp.districts}
      [] resp.level = "poi" -> {resp.nearby}
      [] OTHER -> {resp.results}

\* the catalog rows an envelope returns
PoisOf(resp) == UNION {Range(l) : l \in ResultLists(resp)}

RECURSIVE SumLen(_, _)
SumLen(g, keys) ==
    IF keys = {} THEN 0
    ELSE LET key == CHOOSE x \in keys : TRUE
         IN  Len(g[key]) + SumLen(g, keys \ {key})

\* the number of POIs in an envelope, over all its groups
TotalPois(resp) ==
    CASE resp.level = "city" -> SumLen(resp.regions, DOMAIN resp.regions)
      [] resp.level = "region" -> SumLen(resp.districts, DOMAIN resp.districts)
      [] resp.level = "poi" -> Len(resp.nearby)
      [] OTHER -> Len(resp.results)

\* the rows the interest filter of the request keeps
InterestPool(resp) ==
    {i \in DOMAIN POI_DATA :
        resp.parsed.categories = <<>>
        \/ \E n \in DOMAIN resp.parsed.categories :
              /\ resp.parsed.categories[n] \in DOMAIN CATEGORY_MAP
              /\ POI_DATA[i].category \in Range(CATEGORY_MAP[resp.parsed.categories[n]])}

MentionsSingapore == In("singapore", _normalise(query))

\* C1: a query whose normalized text contains "singapore" is answered with an
\* envelope of level "city".
C1_SingaporeIsCityLevel ==
    (pc = "done" /\ MentionsSingapore) => (IsEnvelope /\ response.level = "city")

DistrictMatches(resp) ==
    {i \in InterestPool(resp) :
        lower(POI_DATA[i].district) = lower(resp.parsed.location.location_name)}

IsDistrictScope(resp) ==
    /\ resp.parsed.location # None
    /\ resp.parsed.location.location_level = "district"

\* C5: for a District scope with fewer than top_k interest-filtered rows in the
\* district the level is "district_fallback" and the results are at most top_k rows
\* of the scope's region; "district" is reported only with at least top_k rows.
C5_DistrictFallback ==
    (IsEnvelope /\ IsDistrictScope(response)) =>
        /\ response.level \in {"district", "district_fallback"}
        /\ Cardinality(DistrictMatches(response)) < top_k =>
              /\ response.level = "district_fallback"
              /\ Len(response.results) <= top_k
              /\ \A i \in Range(response.results) :
                    POI_DATA[i].region = response.parsed.location.region
        /\ response.level = "district" =>
              Cardinality(DistrictMatches(response)) >= top_k

\* C5 witness: a fallback that returns rows of the region from outside the district
C5_Witness ==
    /\ IsEnvelope
    /\ IsDistrictScope(response)
    /\ response.level = "district_fallback"
    /\ Cardinality(DistrictMatches(response)) < top_k
    /\ \E i \in Range(response.results) : i \notin DistrictMatches(response)

\* C6: with no category detected, no returned POI has a boring category.
C6_NoBoringWithoutCategory ==
    (IsEnvelope /\ response.parsed.categories = <<>>) =>
        \A i \in PoisOf(response) : POI_DATA[i].category \notin BORING_CATEGORIES

\* C7: a Region scope with no row of the interest pool in the region is answered
\* at level "region" from the whole interest pool, so with a non-empty result
\* when the pool is non-empty.
C7_RegionWidensToCatalog ==
    (/\ IsEnvelope
     /\ response.parsed.location # None
     /\ response.parsed.location.location_level = "region"
     /\ InterestPool(response) # {}
     /\ \A i \in InterestPool(response) :
           lower(POI_DATA[i].region) # lower(response.parsed.location.location_name))
    => (response.level = "region" /\ PoisOf(response) # {})

\* C8: an envelope holds no POI only when the interest filter itself keeps no row.
C8_EmptyOnlyIfInterestEmpty ==
    (IsEnvelope /\ PoisOf(response) = {}) => InterestPool(response) = {}

RowsNamed(column) ==
    {i \in DOMAIN POI_DATA : In(POI_DATA[i][column], _normalise(query))}
FirstNamed(column) ==
    CHOOSE i \in RowsNamed(column) : \A j \in RowsNamed(column) : i <= j

\* C10: without "singapore" and with a direct match, the location is the POI of
\* the first row whose name occurs in the query; with no such row, the district
\* of the first row whose district occurs; with none, the region of the first
\* row whose region occurs.
C10_MostSpecificFirstInCatalog ==
    (/\ pc = "done"
     /\ response # Raised
     /\ ~MentionsSingapore
     /\ RowsNamed("name_lower") \cup RowsNamed("district_lower")
            \cup RowsNamed("region_lower") # {})
    => LET loc == response.parsed.location
       IN  IF RowsNamed("name_lower") # {}
           THEN LET row == POI_DATA[FirstNamed("name_lower")]
                IN  loc = [location_name |-> row.name, location_level |-> "poi",
                           district |-> row.district, region |-> row.region]
           ELSE IF RowsNamed("district_lower") # {}
           THEN LET row == POI_DATA[FirstNamed("district_lower")]
                IN  loc = [location_name |-> row.district,
                           location_level |-> "district", region |-> row.region]
           ELSE loc = [location_name |-> POI_DATA[FirstNamed("region_lower")].region,
                       location_level |-> "region"]

\* C10 witness: two rows are named by the query as POIs, and a district and a
\* region match as well
C10_Witness ==
    /\ pc = "done"
    /\ response # Raised
    /\ ~MentionsSingapore
    /\ Cardinality(RowsNamed("name_lower")) >= 2
    /\ RowsNamed("district_lower") # {}
    /\ RowsNamed("region_lower") # {}
    /\ response.parsed.location.location_level = "poi"

\* the key phrases of the table that occur in the normalized query
PhrasesIn(q) == {n \in DOMAIN CATEGORY_KEYWORDS : In(CATEGORY_KEYWORDS[n][1], q)}
BroadlyPhrased(q) == In("things to do", q) \/ In("what to do", q) \/ In("fun", q)

\* C11: the categories of the parse are a strictly increasing (so sorted and
\* duplicate-free) list; every phrase of the table that occurs in the normalized
\* query contributes its category, "activities" is there for "things to do",
\* "what to do" or "fun", and nothing else is; no match gives the empty list.
C11_CategoryUnion ==
    (pc = "done" /\ response # Raised) =>
        LET q == _normalise(query)
            cats == response.parsed.categories
        IN  /\ \A a, b \in DOMAIN cats : a < b => StrLess(cats[a], cats[b])
            /\ \A n \in PhrasesIn(q) : CATEGORY_KEYWORDS[n][2] \in Range(cats)
            /\ BroadlyPhrased(q) => "activities" \in Range(cats)
            /\ \A c \in Range(cats) :
                  \/ \E n \in PhrasesIn(q) : CATEGORY_KEYWORDS[n][2] = c
                  \/ c = "activities" /\ BroadlyPhrased(q)
            /\ (PhrasesIn(q) = {} /\ ~BroadlyPhrased(q)) => cats = <<>>

\* C11 witness: a query with phrases of two categories, one phrase ("cafes")
\* holding a shorter one ("cafe") of the table
C11_Witness ==
    /\ pc = "done"
    /\ response # Raised
    /\ Cardinality(PhrasesIn(_normalise(query))) >= 3
    /\ Len(response.parsed.categories) = 2
    /\ In("cafes", _normalise(query))

\* the returned POIs of an envelope, each with the text poi_explanations gives it
ExplainedPois(resp) ==
    CASE resp.level = "city" ->
            UNION {{<<resp.regions[r][n], resp.poi_explanations[r][n]>> :
                        n \in DOMAIN resp.regions[r]} : r \in DOMAIN resp.regions}
      [] resp.level = "region" ->
            UNION {{<<resp.districts[d][n], resp.poi_explanations[d][n]>> :
                        n \in DOMAIN resp.districts[d]} : d \in DOMAIN resp.districts}
      [] resp.level = "poi" ->
            {<<resp.nearby[n], resp.poi_explanations[n]>> : n \in DOMAIN resp.nearby}
      [] OTHER ->
            {<<resp.results[n], resp.poi_explanations[n]>> : n \in DOMAIN resp.results}

HasLocationSentence(text) == In("Located in the requested", text)

\* the POI's district or region equals the resolved scope: the region a Region
\* scope names, the district or the region a District or Poi scope carries
InResolvedScope(poi, location) ==
    /\ location # None
    /\ CASE location.location_level = "region" ->
                lower(poi.region) = lower(location.location_name)
         [] location.location_level = "district" ->
                \/ lower(poi.district) = lower(location.location_name)
                \/ lower(poi.region) = lower(location.region)
         [] location.location_level = "poi" ->
                \/ lower(poi.district) = lower(location.district)
                \/ lower(poi.region) = lower(location.region)
         [] OTHER -> FALSE

\* C12: the explanation of a returned POI has a location-match sentence exactly
\* when the POI's district or region equals the resolved scope, a Region scope
\* included.
C12_LocationSentenceIffInScope ==
    IsEnvelope =>
        \A e \in ExplainedPois(response) :
            HasLocationSentence(e[2])
                <=> InResolvedScope(POI_DATA[e[1]], response.parsed.location)

\* the lower-case district names of the catalog, and the first in string order
DistrictNames == {POI_DATA[i].district_lower : i \in DOMAIN POI_DATA}
FirstDistrict == CHOOSE d \in DistrictNames : \A e \in DistrictNames : d = e \/ StrLess(d, e)

\* C16: a query whose normalized text is empty, on a catalog with at least one
\* district and no empty name, district or region, resolves to the District scope
\* that names the alphabetically first district, never to "no scope".
C16_EmptyQueryIsFirstDistrict ==
    (/\ pc = "done"
     /\ response # Raised
     /\ _normalise(query) = ""
     /\ POI_DATA # <<>>
     /\ \A i \in DOMAIN POI_DATA : /\ POI_DATA[i].name_lower # ""
                                   /\ POI_DATA[i].district_lower # ""
                                   /\ POI_DATA[i].region_lower # "")
        => /\ response.parsed.location # None
           /\ response.parsed.location.location_level = "district"
           /\ response.parsed.location.location_name = upper(FirstDistrict)

\* C16 witness: a query of spaces only, answered on a catalog whose first row is
\* not of the alphabetically first district
C16_Witness ==
    /\ pc = "done"
    /\ response # Raised
    /\ query # ""
    /\ _normalise(query) = ""
    /\ Cardinality(DistrictNames) >= 2
    /\ POI_DATA[1].district_lower # FirstDistrict
    /\ response.parsed.location # None
    /\ response.parsed.location.location_name = upper(FirstDistrict)

(***************************************************************************)
(* multilevel_recommend under any top_k a QueryRequest carries             *)
(* (specification SpecAnyK): models.py declares top_k: Optional[int] = 5   *)
(* with no lower limit, and main.py passes it on as it is.                 *)
(***************************************************************************)
InitAnyK ==
    /\ POI_DATA \in Catalogs
    /\ query \in Queries
    /\ top_k \in (-1)..MaxK
    /\ pc = "request"
    /\ response = None
    /\ results = <<>>
    /\ used_categories = {}
    /\ round = 0

SpecAnyK == InitAnyK /\ [][Next]_vars

\* C14: a request with top_k < 1 ends in an error, never in a returned dict.
C14_NonPositiveKIsAnError ==
    (pc = "done" /\ top_k < 1) => response = Raised

(***************************************************************************)
(* recommender.diversified_sample(df, top_k), called on the DataFrame      *)
(* POI_DATA, one step per early return and per iteration of its loop.      *)
(***************************************************************************)
\* if df.empty: return []
SelectEmpty ==
    /\ pc = "call"
    /\ Len(POI_DATA) = 0
    /\ results' = <<>>
    /\ pc' = "returned"
    /\ UNCHANGED <<POI_DATA, query, top_k, response, used_categories, round>>

\* if len(df) <= top_k: return df.to_dict(orient="records")
SelectAll ==
    /\ pc = "call"
    /\ Len(POI_DATA) # 0
    /\ Len(POI_DATA) <= top_k
    /\ results' = [i \in DOMAIN POI_DATA |-> i]
    /\ pc' = "returned"
    /\ UNCHANGED <<POI_DATA, query, top_k, response, used_categories, round>>

\* pd.to_numeric(df["popularity"], errors="coerce").fillna(1.0), for one cell
to_numeric(popularity) == IF popularity = NaN THEN 1 ELSE popularity

\* the sum of the coerced popularity column over the rows of `remaining`
RECURSIVE SumCoerced(_)
SumCoerced(remaining) ==
    IF remaining = <<>> THEN 0
    ELSE to_numeric(POI_DATA[Head(remaining)].popularity) + SumCoerced(Tail(remaining))

\* df.copy(), results = [], used_categories = set(), and into the loop; the
\* coerced popularity column of the copy is read through to_numeric
SelectStart ==
    /\ pc = "call"
    /\ Len(POI_DATA) # 0
    /\ ~(Len(POI_DATA) <= top_k)
    /\ results' = <<>>
    /\ used_categories' = {}
    /\ round' = 0
    /\ pc' = "loop"
    /\ UNCHANGED <<POI_DATA, query, top_k, response>>

\* `remaining` without the category filter: every row, every round
Remaining_AnyCategory(used) == [i \in DOMAIN POI_DATA |-> i]

\* `remaining` of one iteration: the rows of an unused category, or all rows
\* when there is none
Remaining(used) ==
    LET all == [i \in DOMAIN POI_DATA |-> i]
        Unused(i) == POI_DATA[i].category \notin used
    IN  IF SelectSeq(all, Unused) = <<>> THEN all ELSE SelectSeq(all, Unused)

\* the rows np.random.choice(remaining.index, p=weights) can return; none when
\* the weights are 0/0, where it raises ValueError
Choices(remaining) ==
    IF SumCoerced(remaining) = 0 THEN {}
    ELSE {i \in Range(remaining) : to_numeric(POI_DATA[i].popularity) > 0}

\* one iteration of `for _ in range(top_k)`
SelectDraw ==
    /\ pc = "loop"
    /\ round < top_k
    /\ \/ /\ Choices(Remaining(used_categories)) = {}
          /\ pc' = "raised"
          /\ UNCHANGED <<results, used_categories, round>>
       \/ \E idx \in Choices(Remaining(used_categories)) :
             /\ results' = Append(results, idx)
             /\ used_categories' = used_categories \cup {POI_DATA[idx].category}
             /\ round' = round + 1
             /\ pc' = "loop"
    /\ UNCHANGED <<POI_DATA, query, top_k, response>>

\* return results
SelectReturn ==
    /\ pc = "loop"
    /\ round = top_k
    /\ pc' = "returned"
    /\ UNCHANGED <<POI_DATA, query, top_k, response, results, used_categories, round>>

\* the sequences of at most n elements of S
RECURSIVE SeqsUpTo(_, _)
SeqsUpTo(S, n) ==
    IF n = 0 THEN {<<>>}
    ELSE SeqsUpTo(S, n - 1) \cup {Append(s, x) : s \in [1..(n - 1) -> S], x \in S}

\* candidate pools: up to MaxPool rows, a row with a missing popularity among
\* them; equal rows may occur more than once
Pools == {load_poi_data(csv) : csv \in SeqsUpTo(CsvRows \cup RowsMissingPopularity, MaxPool)}

InitSel ==
    /\ POI_DATA \in Pools
    /\ query = ""
    /\ top_k \in 1..MaxK
    /\ pc = "call"
    /\ response = None
    /\ results = <<>>
    /\ used_categories = {}
    /\ round = 0

NextSel == SelectEmpty \/ SelectAll \/ SelectStart \/ SelectDraw \/ SelectReturn

SpecSel == InitSel /\ [][NextSel]_vars

(***************************************************************************)
(* Properties of diversified_sample (specification SpecSel).               *)
(***************************************************************************)
\* C2: the returned items are pairwise distinct catalog rows.
C2_NoDuplicates ==
    pc = "returned" =>
        \A a, b \in DOMAIN results : a # b => results[a] # results[b]

\* C3: the call returns exactly min(|candidates|, top_k) items.
C3_ExactlyMinItems ==
    pc \in {"returned", "raised"} =>
        /\ pc = "returned"
        /\ Len(results) = IF Len(POI_DATA) < top_k THEN Len(POI_DATA) ELSE top_k
\* the categories of the pool, and of the first n items drawn
PoolCategories == {POI_DATA[i].category : i \in DOMAIN POI_DATA}
DrawnCategories(n) == {POI_DATA[results[m]].category : m \in 1..n}

\* C15: with more candidates than top_k, every round draws a row of a category not
\* chosen before as long as the pool has one: the first min(top_k, c) items have
\* pairwise distinct categories, c the number of categories of the pool, and an
\* item repeats a category only after all c have been chosen.
C15_CategoriesBeforeRepeats ==
    (pc \in {"loop", "returned"} /\ Len(POI_DATA) > top_k) =>
        /\ used_categories = DrawnCategories(Len(results))
        /\ \A n \in DOMAIN results :
              /\ n <= Cardinality(PoolCategories) =>
                    POI_DATA[results[n]].category \notin DrawnCategories(n - 1)
              /\ POI_DATA[results[n]].category \in DrawnCategories(n - 1) =>
                    DrawnCategories(n - 1) = PoolCategories

\* C15 witness: two items of different categories returned from a pool in which
\* the first item's category has a second row that could have been drawn
C15_Witness ==
    /\ pc = "returned"
    /\ Len(POI_DATA) > top_k
    /\ Len(results) = 2
    /\ POI_DATA[results[1]].category # POI_DATA[results[2]].category
    /\ \E i \in DOMAIN POI_DATA :
          /\ i # results[1]
          /\ POI_DATA[i].category = POI_DATA[results[1]].category
          /\ to_numeric(POI_DATA[i].popularity) > 0

(***************************************************************************)
(* multilevel.weighted_sample(df, top_k), called on a DataFrame of its     *)
(* own (specification SpecSample): pc "call" -> "returned" with the        *)
(* records in results, or "raised".                                        *)
(***************************************************************************)
weighted_sample_call ==
    /\ pc = "call"
    /\ \E out \in weighted_sample([i \in DOMAIN POI_DATA |-> i], top_k) :
          /\ results' = out.records
          /\ pc' = IF out.raised THEN "raised" ELSE "returned"
    /\ UNCHANGED <<POI_DATA, query, top_k, response, used_categories, round>>

\* weighted_sample is about to be called on a pool with a top_k of at least 1
InitSample ==
    /\ POI_DATA \in Pools
    /\ query = ""
    /\ top_k \in 1..MaxK
    /\ pc = "call"
    /\ response = None
    /\ results = <<>>
    /\ used_categories = {}
    /\ round = 0

NextSample == weighted_sample_call

SpecSample == InitSample /\ [][NextSample]_vars

\* C13: for a pool of more than top_k rows, one of them with a missing
\* popularity, weighted_sample completes and returns top_k rows.
C13_MissingPopularityNeverFails ==
    (/\ pc \in {"returned", "raised"}
     /\ Len(POI_DATA) > top_k
     /\ \E i \in DOMAIN POI_DATA : POI_DATA[i].popularity = NaN)
        => (pc = "returned" /\ Len(results) = top_k)

=============================================================================
